---------------------------- MODULE Spec2Model ----------------------------
(***************************************************************************)
(* A model of the astd build pipeline (src/build.rs), of its stand-alone   *)
(* artifact collector (src/gather_libs.rs) and of the signature extractor  *)
(* exercised by src/tests/extract_function_details.rs.                     *)
(*                                                                         *)
(* Text is modelled character by character: a text is a TLA+ string, and   *)
(* the regular expressions of the source are modelled by the way a         *)
(* leftmost-first backtracking matcher explores them.                      *)
(***************************************************************************)
EXTENDS Integers, Sequences, FiniteSets, TLC

(***************************************************************************)
(* Bounds of the model.                                                    *)
(***************************************************************************)
\* the number of times the build script is started on the same file system
MaxRuns == 2
\* the number of files the external build leaves in its build tree
MaxFiles == 2
\* the number of items (declarations, comments) of a generated header text
MaxItems == 3

\* the absent value of an Option
None == <<>>

(***************************************************************************)
(* Characters and strings.                                                 *)
(***************************************************************************)
Ch(s, i) == SubSeq(s, i, i)

Digit == {"0", "1", "2", "3", "4", "5", "6", "7", "8", "9"}

Lower == {"a", "b", "c", "d", "e", "f", "g", "h", "i", "j", "k", "l", "m",
          "n", "o", "p", "q", "r", "s", "t", "u", "v", "w", "x", "y", "z"}

Upper == {"A", "B", "C", "D", "E", "F", "G", "H", "I", "J", "K", "L", "M",
          "N", "O", "P", "Q", "R", "S", "T", "U", "V", "W", "X", "Y", "Z"}

\* \w of the regex crate, on ASCII text
WordCh == Lower \cup Upper \cup Digit \cup {"_"}

\* \s of the regex crate, on ASCII text
SpaceCh == {" ", "\t", "\n", "\r"}

\* the class [\w:\*&<>\s] of func_regex
RetCh == WordCh \cup SpaceCh \cup {":", "*", "&", "<", ">"}

\* the excluded characters of the class [^;:{] of func_regex
TemplStop == {";", ":", "{"}

DigitVal(c) ==
    CASE c = "0" -> 0 [] c = "1" -> 1 [] c = "2" -> 2 [] c = "3" -> 3
      [] c = "4" -> 4 [] c = "5" -> 5 [] c = "6" -> 6 [] c = "7" -> 7
      [] c = "8" -> 8 [] c = "9" -> 9

\* the index after the longest run of characters of class C that starts at i
RECURSIVE RunEnd(_, _, _)
RunEnd(s, i, C) ==
    IF i <= Len(s) /\ Ch(s, i) \in C THEN RunEnd(s, i + 1, C) ELSE i

\* the index after the longest run of characters outside class C from i
RECURSIVE RunEndNot(_, _, _)
RunEndNot(s, i, C) ==
    IF i <= Len(s) /\ Ch(s, i) \notin C THEN RunEndNot(s, i + 1, C) ELSE i

StartsWith(s, p) == Len(s) >= Len(p) /\ SubSeq(s, 1, Len(p)) = p

StartsWithAt(s, i, p) ==
    i + Len(p) - 1 <= Len(s) /\ SubSeq(s, i, i + Len(p) - 1) = p

\* str::trim
RECURSIVE TrimStart(_)
TrimStart(s) ==
    IF Len(s) > 0 /\ Ch(s, 1) \in SpaceCh THEN TrimStart(SubSeq(s, 2, Len(s)))
    ELSE s

RECURSIVE TrimEnd(_)
TrimEnd(s) ==
    IF Len(s) > 0 /\ Ch(s, Len(s)) \in SpaceCh
    THEN TrimEnd(SubSeq(s, 1, Len(s) - 1))
    ELSE s

Trim(s) == TrimEnd(TrimStart(s))

(***************************************************************************)
(* Versioning helpers (build.rs, "Versioning Helpers").                    *)
(*                                                                         *)
(* A u32 is kept as two 16-bit limbs <<hi, lo>>, so that the width of the  *)
(* parse is the width of the source.                                       *)
(***************************************************************************)
MINIMUM_GIT_VERSION == <<2, 40, 0>>
MINIMUM_CMAKE_VERSION == <<3, 31, 0>>

\* `req[i] as u32`
U32OfU8(n) == <<0, n>>

\* u32 comparison
U32Less(a, b) == a[1] < b[1] \/ (a[1] = b[1] /\ a[2] < b[2])

\* one step of str::parse::<u32>: acc * 10 + d, checked
ParseStep(acc, d) ==
    LET lo10 == acc[2] * 10 + d
        hi10 == acc[1] * 10 + (lo10 \div 65536)
    IN  IF hi10 >= 65536 THEN None ELSE <<hi10, lo10 % 65536>>

\* str::parse::<u32> of a non-empty run of decimal digits
RECURSIVE ParseFrom(_, _, _)
ParseFrom(t, i, acc) ==
    IF i > Len(t) THEN acc
    ELSE LET nxt == ParseStep(acc, DigitVal(Ch(t, i)))
         IN  IF nxt = None THEN None ELSE ParseFrom(t, i + 1, nxt)

ParseU32(t) == ParseFrom(t, 1, <<0, 0>>)

\* (\d+)\.(\d+)\.(\d+) tried at position i.  A greedy \d+ can only be
\* followed by "." (or the end of the match) at the end of the digit run,
\* so the run's end is the only split a backtracking matcher succeeds with.
VersionMatchAt(s, i) ==
    LET a == RunEnd(s, i, Digit)
        b == RunEnd(s, a + 1, Digit)
        c == RunEnd(s, b + 1, Digit)
    IN  IF a > i /\ a <= Len(s) /\ Ch(s, a) = "."
           /\ b > a + 1 /\ b <= Len(s) /\ Ch(s, b) = "."
           /\ c > b + 1
        THEN <<SubSeq(s, i, a - 1), SubSeq(s, a + 1, b - 1), SubSeq(s, b + 1, c - 1)>>
        ELSE None

\* Regex::captures: the leftmost match
RECURSIVE VersionCaptures(_, _)
VersionCaptures(s, i) ==
    IF i > Len(s) THEN None
    ELSE IF VersionMatchAt(s, i) # None THEN VersionMatchAt(s, i)
    ELSE VersionCaptures(s, i + 1)

extract_version(version) ==
    LET caps == VersionCaptures(version, 1)
    IN  IF caps = None THEN None
        ELSE LET major == ParseU32(caps[1])
                 minor == ParseU32(caps[2])
                 patch == ParseU32(caps[3])
             IN  IF major = None \/ minor = None \/ patch = None THEN None
                 ELSE <<major, minor, patch>>

\* a bug a comparison of triples invites: equality does not pass
TupleGeStrict(a, b) ==
    \/ U32Less(b[1], a[1])
    \/ a[1] = b[1] /\ U32Less(b[2], a[2])
    \/ a[1] = b[1] /\ a[2] = b[2] /\ U32Less(b[3], a[3])

\* `(major, minor, patch) >= (r0, r1, r2)`: the lexicographic order of tuples
TupleGe(a, b) ==
    \/ U32Less(b[1], a[1])
    \/ a[1] = b[1] /\ U32Less(b[2], a[2])
    \/ a[1] = b[1] /\ a[2] = b[2] /\ ~U32Less(a[3], b[3])

is_version_valid(version_token, req) ==
    LET v == extract_version(version_token)
    IN  IF v # None
        THEN TupleGe(v, <<U32OfU8(req[1]), U32OfU8(req[2]), U32OfU8(req[3])>>)
        ELSE FALSE

(***************************************************************************)
(* func_regex (build.rs, generate_bind_wrappers), written out below.       *)
(*                                                                         *)
(* The regex crate reports the match a backtracking matcher finds first:   *)
(* at the leftmost position that matches at all, every greedy repetition   *)
(* is tried from its longest extent to its shortest, and the optional      *)
(* group is tried before it is skipped.  Each Match operator below stands  *)
(* for one repetition and the rest of the pattern after it: of the extents *)
(* e after which the rest matches, the matcher finds the longest first.    *)
(***************************************************************************)
\* func_regex is
\*   (?m)^\s*(template\s*<[^;:{]+>\s*)?([\w:\*&<>\s]+)\s+(\w+)\s*\(
\* and a match records its three groups and the index after its last character
NoMatch == [ok |-> FALSE, has1 |-> FALSE, g1 |-> "", g2 |-> "", g3 |-> "", end |-> 0]

\* the match of the longest extent among the attempts <<extent, match>>
Longest(tries) ==
    LET good == { t \in tries : t[2].ok }
    IN  IF good = {} THEN NoMatch
        ELSE (CHOOSE t \in good : \A u \in good : u[1] <= t[1])[2]

\* \( at x
Paren(s, x) ==
    IF x <= Len(s) /\ Ch(s, x) = "("
    THEN [NoMatch EXCEPT !.ok = TRUE, !.end = x + 1]
    ELSE NoMatch

\* \s*\( from q
MatchPreParen(s, q) ==
    Longest({ <<e, Paren(s, e)>> : e \in q..RunEnd(s, q, SpaceCh) })

\* (\w+)\s*\( from n
MatchName(s, n) ==
    Longest({ <<e, [MatchPreParen(s, e) EXCEPT !.g3 = SubSeq(s, n, e - 1)]>> :
                e \in (n + 1)..RunEnd(s, n, WordCh) })

\* \s+(\w+)\s*\( from q
MatchSep(s, q) ==
    Longest({ <<e, MatchName(s, e)>> : e \in (q + 1)..RunEnd(s, q, SpaceCh) })

\* ([\w:\*&<>\s]+)\s+(\w+)\s*\( from p
MatchRet(s, p) ==
    Longest({ <<e, [MatchSep(s, e) EXCEPT !.g2 = SubSeq(s, p, e - 1)]>> :
                e \in (p + 1)..RunEnd(s, p, RetCh) })

\* the \s* that ends group 1, from lo, and the rest of the pattern
MatchTemplWs(s, p, lo) ==
    Longest({ <<e, [MatchRet(s, e) EXCEPT !.has1 = TRUE, !.g1 = SubSeq(s, p, e - 1)]>> :
                e \in lo..RunEnd(s, lo, SpaceCh) })

\* > at e, and the rest of the pattern
MatchTemplClose(s, p, e) ==
    IF e <= Len(s) /\ Ch(s, e) = ">" THEN MatchTemplWs(s, p, e + 1) ELSE NoMatch

\* [^;:{]+> from b
MatchTemplBody(s, p, b) ==
    Longest({ <<e, MatchTemplClose(s, p, e)>> :
                e \in (b + 1)..RunEndNot(s, b, TemplStop) })

\* < at e, and the rest of the group
MatchTemplOpen(s, p, e) ==
    IF e <= Len(s) /\ Ch(s, e) = "<" THEN MatchTemplBody(s, p, e + 1) ELSE NoMatch

\* (template\s*<[^;:{]+>\s*) from p, and the rest of the pattern
MatchTempl(s, p) ==
    IF StartsWithAt(s, p, "template")
    THEN Longest({ <<e, MatchTemplOpen(s, p, e)>> :
                     e \in (p + 8)..RunEnd(s, p + 8, SpaceCh) })
    ELSE NoMatch

\* a plausible slip: the optional group is never tried
MatchOptSkipped(s, p) == MatchRet(s, p)

\* (...)? : the group first, then without it
MatchOpt(s, p) ==
    LET r == MatchTempl(s, p)
    IN  IF r.ok THEN r ELSE MatchRet(s, p)

\* \s* after ^, from p
MatchLead(s, p) ==
    Longest({ <<e, MatchOpt(s, e)>> : e \in p..RunEnd(s, p, SpaceCh) })

\* a plausible slip: the pattern without its line anchor
IsLineStartAnywhere(s, p) == TRUE

\* (?m)^
IsLineStart(s, p) == p = 1 \/ Ch(s, p - 1) = "\n"

MatchAt(s, p) == IF IsLineStart(s, p) THEN MatchLead(s, p) ELSE NoMatch

\* the leftmost match that starts at i or later
FindFrom(s, i) ==
    LET good == { t \in { <<p, MatchAt(s, p)>> : p \in i..Len(s) } : t[2].ok }
    IN  IF good = {} THEN NoMatch
        ELSE (CHOOSE t \in good : \A u \in good : t[1] <= u[1])[2]

\* Regex::captures_iter: successive matches, each search starting where the
\* last match ended
RECURSIVE CapturesIter(_, _)
CapturesIter(s, i) ==
    LET m == FindFrom(s, i)
    IN  IF m.ok THEN <<m>> \o CapturesIter(s, m.end) ELSE <<>>

func_regex_captures(contents) == CapturesIter(contents, 1)

(***************************************************************************)
(* extract_function_details (crate astd; the source holds its tests only): *)
(* one record per match of func_regex, built as spec 4.3 and the tests     *)
(* state it: the trimmed template preamble or "", the trimmed return type, *)
(* the name.                                                               *)
(***************************************************************************)
SignatureOf(m) ==
    [prefix |-> IF m.has1 THEN Trim(m.g1) ELSE "",
     ret |-> Trim(m.g2),
     name |-> m.g3]

extract_function_details(source) ==
    LET caps == func_regex_captures(source)
    IN  [i \in 1..Len(caps) |-> SignatureOf(caps[i])]

(***************************************************************************)
(* generate_bind_wrappers, for the contents of one header file.  The       *)
(* result is the lines written and whether the call panicked.              *)
(***************************************************************************)
ALLOC_PREFIX == "LOW_LEVEL_ALLOC"

\* writeln!(writer, "  // Wrapper for function declared in {:?}", file_name)
WrapperComment(file_name) ==
    "  // Wrapper for function declared in \"" \o file_name \o "\""

\* writeln!(writer, "  {ret} {name}_wrapper() {{ return {name}(); }}", ...)
WrapperStub(ret, name) ==
    "  " \o ret \o " " \o name \o "_wrapper() { return " \o name \o "(); }"

RECURSIVE WriteWrappers(_, _, _, _)
WriteWrappers(caps, i, file_name, out) ==
    IF i > Len(caps) THEN [panicked |-> FALSE, lines |-> out]
    ELSE IF ~caps[i].has1
    THEN \* cap.get(1).unwrap() on a group that did not take part in the match
         [panicked |-> TRUE, lines |-> out]
    ELSE LET return_type == Trim(caps[i].g1)
             func_name == Trim(caps[i].g2)
         IN  IF StartsWith(func_name, ALLOC_PREFIX)
             THEN WriteWrappers(caps, i + 1, file_name, out)
             ELSE WriteWrappers(caps, i + 1, file_name,
                      out \o <<WrapperComment(file_name),
                               WrapperStub(return_type, func_name), "">>)

header_wrappers(file_name, contents) ==
    WriteWrappers(func_regex_captures(contents), 1, file_name, <<>>)

(***************************************************************************)
(* Paths and directory listings.  A path is the sequence of its segments.  *)
(***************************************************************************)
ABSEIL_SRC == "https://github.com/abseil/abseil-cpp.git"
BUILD_DIR == <<"target">>
ABSEIL_BUILD_DIR == <<"target", "abseil-cpp", "build">>

\* Path::file_name
FileName(path) == path[Len(path)]

\* Path::extension: the text after the last "." of the file name, none when
\* the name has no "." past its first character
Extension(path) ==
    LET name == FileName(path)
        dots == { i \in 2..Len(name) : Ch(name, i) = "." }
    IN  IF dots = {} THEN [some |-> FALSE, ext |-> ""]
        ELSE LET d == CHOOSE i \in dots : \A j \in dots : j <= i
             IN  [some |-> TRUE, ext |-> SubSeq(name, d + 1, Len(name))]

\* str::ends_with
EndsWith(s, suffix) ==
    /\ Len(s) >= Len(suffix)
    /\ SubSeq(s, Len(s) - Len(suffix) + 1, Len(s)) = suffix

\* fs::read_dir yields the entries of a directory in an order of the file
\* system's choosing: here by name, ascending or descending
NameOrder == <<"CMakeCache.txt", "Debug", "absl", "absl_base.lib",
               "absl_base.pdb", "base", "bin", "call.cc", "call.h",
               "config.h", "internal", "log.lib", "notes.txt", "ops.H",
               "ops.h", "str.lib", "strings">>

DirOrders == {"ascending", "descending"}

Rank(name) == CHOOSE i \in 1..Len(NameOrder) : NameOrder[i] = name

\* whether a depth-first walk that lists every directory in order ord
\* reaches file f before file g
VisitedBefore(f, g, ord) ==
    LET both == 1..(IF Len(f) < Len(g) THEN Len(f) ELSE Len(g))
        diff == { i \in both : f[i] # g[i] }
    IN  IF diff = {} THEN Len(f) < Len(g)
        ELSE LET k == CHOOSE i \in diff : \A j \in diff : i <= j
             IN  IF ord = "ascending" THEN Rank(f[k]) < Rank(g[k])
                 ELSE Rank(g[k]) < Rank(f[k])

\* the files of a tree in the order the recursive read_dir walk reaches them
Walk(files, ord) ==
    [i \in 1..Cardinality(files) |->
        CHOOSE f \in files :
            Cardinality({ g \in files : VisitedBefore(g, f, ord) }) = i - 1]

\* a destination tree after the copies of a walk, a later copy to the same
\* destination replacing the earlier one (fs::copy overwrites)
ApplyCopies(tree, copies) ==
    LET dests == { copies[i].dest : i \in 1..Len(copies) }
        LastTo(d) ==
            LET is == { i \in 1..Len(copies) : copies[i].dest = d }
            IN  copies[CHOOSE i \in is : \A j \in is : j <= i]
    IN  { e \in tree : e.dest \notin dests } \cup { LastTo(d) : d \in dests }

\* the copies a walk makes: the eligible files, each to its destination
\* dest[file], up to the first one whose copy fails
WalkCopies(walk, eligible, dest, bad) ==
    LET IsEligible(f) == f \in eligible
        hit == { i \in 1..Len(walk) : IsEligible(walk[i]) /\ walk[i] \in bad }
        stop == IF hit = {} THEN Len(walk) + 1
                ELSE CHOOSE i \in hit : \A j \in hit : i <= j
        done == SelectSeq(SubSeq(walk, 1, stop - 1), IsEligible)
    IN  [failed |-> hit # {},
         copies |-> [i \in 1..Len(done) |->
                        [dest |-> dest[done[i]], from |-> done[i]]]]

(***************************************************************************)
(* src/build.rs: helpers of the pipeline.                                  *)
(***************************************************************************)
\* an external process as the environment answers it: whether it could be
\* started, whether it exited with success, and what it printed
Outcome(spawned, success, stdout) ==
    [spawned |-> spawned, success |-> success, stdout |-> stdout]

\* Command::current_dir(path): the process cannot start in a missing directory
InDir(o, exists) == [o EXCEPT !.spawned = o.spawned /\ exists]

Invocation(command, args, path) ==
    [command |-> command, args |-> args, cwd |-> path]

\* a plausible slip: the exit status of the command is not looked at
run_command_unchecked(o) ==
    [panicked |-> ~o.spawned, stdout |-> o.stdout]

\* run_command: .output().unwrap() panics when the process cannot start,
\* a status other than success panics, else the standard output is returned
run_command(o) ==
    [panicked |-> ~o.spawned \/ ~o.success, stdout |-> o.stdout]

\* create_path: nothing to do for an existing path, else create_dir_all,
\* which the file system lets succeed (made) or not
create_path(exists, made) ==
    [ok |-> exists \/ made, exists |-> exists \/ made]

\* a plausible slip: the check reports its verdict and leaves the decision
\* to a caller that does not look at it
check_version_reported(version_str) == TRUE

\* check_git_version: TRUE when the check returns, FALSE when it panics
check_git_version(version_str) ==
    is_version_valid(version_str, MINIMUM_GIT_VERSION)

\* check_cmake_version: TRUE when the check returns, FALSE when it panics
check_cmake_version(version_str) ==
    is_version_valid(version_str, MINIMUM_CMAKE_VERSION)

\* Regex "Visual Studio (16 2019|17 2022)" found anywhere in the text
FindGenerator(capabilities) ==
    \E i \in 1..Len(capabilities) :
        \/ StartsWithAt(capabilities, i, "Visual Studio 16 2019")
        \/ StartsWithAt(capabilities, i, "Visual Studio 17 2022")

\* check_msvc_version: TRUE when the check returns, FALSE when it panics
check_msvc_version(capabilities) == FindGenerator(capabilities)

\* basics_check for the host the script was compiled for: the probes made,
\* in order, and whether the check returned (passed) or panicked
basics_check(msvc_host, target_exists, git, cmake, caps) ==
    LET i1 == Invocation("git", <<"--version">>, BUILD_DIR)
        i2 == Invocation("CMake", <<"--version">>, BUILD_DIR)
        i3 == Invocation("CMake", <<"-E", "capabilities">>, BUILD_DIR)
        r1 == run_command(InDir(git, target_exists))
        r2 == run_command(InDir(cmake, target_exists))
        r3 == run_command(InDir(caps, target_exists))
    IN  IF ~msvc_host THEN [passed |-> FALSE, invoked |-> <<>>]
        ELSE IF r1.panicked \/ ~check_git_version(r1.stdout)
        THEN [passed |-> FALSE, invoked |-> <<i1>>]
        ELSE IF r2.panicked \/ ~check_cmake_version(r2.stdout)
        THEN [passed |-> FALSE, invoked |-> <<i1, i2>>]
        ELSE [passed |-> ~r3.panicked /\ check_msvc_version(r3.stdout),
              invoked |-> <<i1, i2, i3>>]

\* build_flags: the two flag lists of a fresh process
ConfigFlagsOf(msvc_host, debug) ==
    <<"-DABSL_USE_GOOGLETEST_HEAD=ON", "-DCMAKE_CXX_STANDARD_REQUIRED=ON",
      "-DCMAKE_CXX_STANDARD=20">>
    \o (IF debug THEN <<"-DCMAKE_BUILD_TYPE=Debug">>
        ELSE <<"-DCMAKE_BUILD_TYPE=Release">>)
    \o (IF msvc_host THEN <<"-DABSL_MSVC_STATIC_RUNTIME=ON">> ELSE <<>>)

CompileFlagsOf(msvc_host, debug) ==
    (IF msvc_host THEN <<"--build">> ELSE <<>>)
    \o <<".", "--", "/p:Platform=x64">>
    \o (IF ~msvc_host THEN <<>>
        ELSE IF debug THEN <<"/p:Configuration=Debug">>
        ELSE <<"/p:Configuration=Release">>)

\* gather_libs::visit_dirs: ext == "lib" || ext == "pdb" || ext == "exp"
IsLibrary(path) ==
    Extension(path).some /\ Extension(path).ext \in {"lib", "pdb", "exp"}

\* destination.join(file_name)
LibDest(path) == <<FileName(path)>>

\* gather_includes::visit_dirs: path.extension() == Some("h")
IsHeader(path) == Extension(path).some /\ Extension(path).ext = "h"

\* the files below ABSEIL_BUILD_DIR.join("absl")
UnderAbsl(tree) == { f \in tree : Len(f) >= 2 /\ f[1] = "absl" }

\* path.strip_prefix(base), dest_dir.join(relative_path)
IncludeDest(path) == Tail(path)

\* ext.eq_ignore_ascii_case("h")
IsHeaderAnyCase(path) ==
    Extension(path).some /\ Extension(path).ext \in {"h", "H"}

\* relative_path.to_string_lossy().replace("\\", "/")
RECURSIVE IncludePath(_)
IncludePath(path) ==
    IF Len(path) = 1 THEN path[1]
    ELSE path[1] \o "/" \o IncludePath(Tail(path))

\* what the headers of the build tree contain, by file name
HeaderContents(name) ==
    CASE name = "config.h" -> "#define ABSL_OK 1\n"
      [] name = "ops.h" -> "template <typename T> T twice(T a);\n"
      [] name = "call.h" -> "int my_function(int a, float b);\n"
      [] OTHER -> ""

\* generate_bindings, the lines written before the include lines
BindingsHead ==
    <<"// language: C++",
      "// This file is auto-generated. It includes all header files from the external folder",
      "", "#ifdef __cplusplus", "extern \"C\" {", "#endif", "">>

\* generate_bindings, the lines written after the wrappers
BindingsFoot == <<"", "#ifdef __cplusplus", "}", "#endif", "">>

\* generate_bind_includes over the walk of the include directory
IncludeLines(headers) ==
    [i \in 1..Len(headers) |->
        "#include \"" \o IncludePath(headers[i].dest) \o "\""]

\* the lines of several writes, one after the other
RECURSIVE Flatten(_)
Flatten(writes) ==
    IF writes = <<>> THEN <<>> ELSE Head(writes) \o Flatten(Tail(writes))

\* generate_bind_wrappers over the walk of the include directory; a panic
\* in one header ends the walk
BindWrappers(headers) ==
    LET each == [i \in 1..Len(headers) |->
                    header_wrappers(FileName(headers[i].dest),
                                    HeaderContents(FileName(headers[i].from)))]
        hit == { i \in 1..Len(headers) : each[i].panicked }
        stop == IF hit = {} THEN Len(headers)
                ELSE CHOOSE i \in hit : \A j \in hit : i <= j
    IN  [panicked |-> hit # {},
         lines |-> Flatten([i \in 1..stop |-> each[i].lines])]

\* the header files of the include tree (destination and origin of each
\* file) in the order read_dir reaches them
HeaderWalk(includes, ord) ==
    LET walk == Walk({ e.dest : e \in includes }, ord)
        EntryOf(d) == CHOOSE e \in includes : e.dest = d
        IsH(e) == IsHeaderAnyCase(e.dest)
    IN  SelectSeq([i \in 1..Len(walk) |-> EntryOf(walk[i])], IsH)

\* generate_bindings over the header files of the include tree: the text of
\* the binding file, and whether the call panicked.  The writer is flushed
\* when it is dropped, also when a panic unwinds.
generate_bindings(headers) ==
    LET w == BindWrappers(headers)
        body == BindingsHead \o IncludeLines(headers) \o <<"">> \o w.lines
    IN  IF w.panicked THEN [panicked |-> TRUE, lines |-> body]
        ELSE [panicked |-> FALSE, lines |-> body \o BindingsFoot]

(***************************************************************************)
(* src/gather_libs.rs: helpers of the stand-alone collector.               *)
(***************************************************************************)
\* a plausible slip: the segments are joined as they are
KeepSegments(rel_path, remove_debug) == rel_path

\* rel_path.components().filter(|comp| comp.as_os_str() != "Debug")
StripDebug(rel_path, remove_debug) ==
    LET NotDebug(comp) == comp # "Debug"
    IN  IF remove_debug THEN SelectSeq(rel_path, NotDebug) ELSE rel_path

\* the predicate of the first operation: a .lib or .pdb file with a
\* component named "Debug" anywhere in its (absolute) path
IsDebugLibrary(path) ==
    /\ EndsWith(FileName(path), ".lib") \/ EndsWith(FileName(path), ".pdb")
    /\ \E i \in 1..Len(path) : path[i] = "Debug"

\* copy_files_with_filter over the files below source_base (paths relative
\* to it), wanted being those the predicate accepts: the copies made, and
\* whether the call returned Err
copy_files_with_filter(files, ord, wanted, remove_debug, bad) ==
    WalkCopies(Walk(files, ord), wanted,
               [rel \in files |-> StripDebug(rel, remove_debug)], bad)

(***************************************************************************)
(* State.                                                                  *)
(***************************************************************************)
VARIABLES
    pc,             \* pipeline: the stage __build executes next
    run,            \* pipeline: the number of the current run of the script
    msvc,           \* pipeline: cfg(all(target_os = "windows", target_env = "msvc"))
    debug_assertions, \* pipeline: cfg(debug_assertions)
    CONFIG_FLAGS,   \* pipeline: static mut CONFIG_FLAGS
    COMPILE_FLAGS,  \* pipeline: static mut COMPILE_FLAGS
    fs,             \* pipeline: the directories and files the script works on
    fs0,            \* pipeline: fs as it was when the current run started
    invocations,    \* pipeline: the external commands of the current run
    trace,          \* pipeline: the stages executed in the current run
    outcomes,       \* pipeline: for each of them, whether all it did succeeded
    envOk,          \* pipeline: no tool, directory or copy has failed this run
    copyErr,        \* pipeline: the files whose copy fails in the last walk
    prev,           \* pipeline: how the previous run ended
    cpc,            \* collector: the operation main executes next
    croot,          \* collector: the absolute path of the working directory
    clibs,          \* collector: ./target/abseil-cpp/build/absl
    chdrs,          \* collector: ./target/abseil-cpp/absl
    cext,           \* collector: whether ./external exists
    cdest,          \* collector: the files below ./external
    ccopied,        \* collector: the copies made so far
    vin,        \* version gate: the tool output under test
    vreq,       \* version gate: the policy triple
    vres,       \* version gate: the result of is_version_valid
    vpc,        \* version gate: "input" before the call, "checked" after
    hdr,        \* extractor: the items (declarations, comments) of the header
    recs,       \* extractor: the records extract_function_details returned
    elines,     \* emitter: the lines generate_bind_wrappers wrote
    epanic,     \* emitter: whether generate_bind_wrappers panicked
    xpc         \* extractor: "input", then "extracted" or "emitted"

pipelineVars == <<pc, run, msvc, debug_assertions, CONFIG_FLAGS, COMPILE_FLAGS,
                  fs, fs0, invocations, trace, outcomes, envOk, copyErr, prev>>
collectVars == <<cpc, croot, clibs, chdrs, cext, cdest, ccopied>>
versionVars == <<vin, vreq, vres, vpc>>
extractVars == <<hdr, recs, elines, epanic, xpc>>
vars == <<pipelineVars, collectVars, versionVars, extractVars>>

\* the file system before the first run
EmptyFs(target_exists) ==
    [target |-> target_exists, source |-> FALSE, build |-> FALSE, tree |-> {},
     libDir |-> FALSE, libs |-> {}, inclDir |-> FALSE, incl |-> {},
     bindings |-> <<>>]

NoTree == [exists |-> FALSE, files |-> {}]

PipelineIdle ==
    /\ pc = "off" /\ run = 1 /\ msvc = FALSE /\ debug_assertions = FALSE
    /\ CONFIG_FLAGS = <<>> /\ COMPILE_FLAGS = <<>>
    /\ fs = EmptyFs(FALSE) /\ fs0 = EmptyFs(FALSE)
    /\ invocations = <<>> /\ trace = <<>> /\ outcomes = <<>>
    /\ envOk = TRUE /\ copyErr = {} /\ prev = "none"
CollectIdle ==
    /\ cpc = "off" /\ croot = <<>> /\ clibs = NoTree /\ chdrs = NoTree
    /\ cext = FALSE /\ cdest = {} /\ ccopied = {}
VersionIdle == vin = "" /\ vreq = MINIMUM_GIT_VERSION /\ vres = FALSE /\ vpc = "off"
ExtractIdle == hdr = <<>> /\ recs = <<>> /\ elines = <<>> /\ epanic = FALSE /\ xpc = "off"

(***************************************************************************)
(* The version gate as a function of its input.                            *)
(***************************************************************************)
VersionPrefixes == {"", "git version ", "cmake version ", "1.2 ", "0.0.1 "}
VersionNumbers == {"0", "2", "3", "31", "39", "40", "041",
                   "4294967295", "4294967296"}
VersionSuffixes == {"", ".windows.1\n"}

VersionMalformed == {"", "git", "2.40", "2..40.0", "2.40.", "a.b.c",
                     "2.x.0 3.31.0", "3.31.0 0.0.1", ".2.40.0", "12.40"}

VersionInputs ==
    VersionMalformed \cup
    { p \o a \o "." \o b \o "." \o c \o x :
        p \in VersionPrefixes, a \in VersionNumbers, b \in VersionNumbers,
        c \in VersionNumbers, x \in VersionSuffixes }

Policies == {MINIMUM_GIT_VERSION, MINIMUM_CMAKE_VERSION}

VersionInit ==
    /\ vin \in VersionInputs
    /\ vreq \in Policies
    /\ vres = FALSE
    /\ vpc = "input"
    /\ PipelineIdle /\ CollectIdle /\ ExtractIdle

CheckVersion ==
    /\ vpc = "input"
    /\ vres' = is_version_valid(vin, vreq)
    /\ vpc' = "checked"
    /\ UNCHANGED <<vin, vreq, pipelineVars, collectVars, extractVars>>

VersionNext == CheckVersion

SpecVersion == VersionInit /\ [][VersionNext]_vars

(***************************************************************************)
(* C3.  What the gate is required to decide, stated on the text itself:    *)
(* the first dotted triple is the one whose first dot comes first, numbers *)
(* are compared as decimal numerals, and a component parses when it is at  *)
(* most 4294967295.                                                        *)
(***************************************************************************)
RefAllDigits(s, a, b) == a <= b /\ \A i \in a..b : Ch(s, i) \in Digit

RefDots(s) == { j \in 1..Len(s) : Ch(s, j) = "." }

\* <<i, j, k>>: digits from i up to a dot at j, digits up to a dot at k, a digit
RefTriples(s) ==
    { t \in (1..Len(s)) \X RefDots(s) \X RefDots(s) :
        /\ t[1] < t[2] /\ t[2] < t[3] /\ t[3] < Len(s)
        /\ RefAllDigits(s, t[1], t[2] - 1)
        /\ RefAllDigits(s, t[2] + 1, t[3] - 1)
        /\ Ch(s, t[3] + 1) \in Digit }

RefHasTriple(s) == RefTriples(s) # {}

RefFirstTriple(s) ==
    LET t == CHOOSE x \in RefTriples(s) : \A y \in RefTriples(s) : x[1] <= y[1]
        e == CHOOSE z \in (t[3] + 1)..Len(s) :
                /\ RefAllDigits(s, t[3] + 1, z)
                /\ (z = Len(s) \/ Ch(s, z + 1) \notin Digit)
    IN  <<SubSeq(s, t[1], t[2] - 1), SubSeq(s, t[2] + 1, t[3] - 1),
          SubSeq(s, t[3] + 1, e)>>

\* a numeral without its leading zeros
RefNorm(t) ==
    LET nz == { i \in 1..Len(t) : Ch(t, i) # "0" }
    IN  IF nz = {} THEN ""
        ELSE SubSeq(t, CHOOSE i \in nz : \A j \in nz : i <= j, Len(t))

\* a <= b for numerals without leading zeros
RefNumLeq(a, b) ==
    \/ Len(a) < Len(b)
    \/ /\ Len(a) = Len(b)
       /\ \/ a = b
          \/ \E i \in 1..Len(a) :
                /\ SubSeq(a, 1, i - 1) = SubSeq(b, 1, i - 1)
                /\ DigitVal(Ch(a, i)) < DigitVal(Ch(b, i))

RefFitsU32(t) == RefNumLeq(RefNorm(t), "4294967295")

\* -1, 0, 1 as the numeral t is below, at or above the policy number p <= 255
RefCompare(t, p) ==
    LET n == RefNorm(t)
        d(i) == DigitVal(Ch(n, i))
        v == CASE Len(n) = 0 -> 0
               [] Len(n) = 1 -> d(1)
               [] Len(n) = 2 -> 10 * d(1) + d(2)
               [] OTHER -> 100 * d(1) + 10 * d(2) + d(3)
    IN  IF Len(n) > 3 THEN 1 ELSE IF v > p THEN 1 ELSE IF v = p THEN 0 ELSE -1

RefTripleGe(t, req) ==
    LET c1 == RefCompare(t[1], req[1])
        c2 == RefCompare(t[2], req[2])
        c3 == RefCompare(t[3], req[3])
    IN  c1 = 1 \/ (c1 = 0 /\ (c2 = 1 \/ (c2 = 0 /\ c3 >= 0)))

RefAccepts(s, req) ==
    /\ RefHasTriple(s)
    /\ \A i \in 1..3 : RefFitsU32(RefFirstTriple(s)[i])
    /\ RefTripleGe(RefFirstTriple(s), req)

\* C3: is_version_valid accepts a tool output exactly when the first dotted
\* triple found in it parses (every component fits a u32) and is greater
\* than or equal to the policy triple in the lexicographic order; equality
\* passes, and a smaller triple or no parsable triple is rejected.
C3_GateAcceptsExactly ==
    vpc = "checked" => (vres <=> RefAccepts(vin, vreq))

\* the gate has accepted an output whose first triple equals the policy,
\* found behind a prefix that is not part of it
C3_Witness ==
    /\ vpc = "checked"
    /\ vres
    /\ RefHasTriple(vin)
    /\ ~StartsWith(vin, RefFirstTriple(vin)[1])
    /\ \A i \in 1..3 : RefCompare(RefFirstTriple(vin)[i], vreq[i]) = 0

(***************************************************************************)
(* The extractor and the emitter as functions of a header text.  A header  *)
(* is a sequence of items, one per line or group of lines; a declaration   *)
(* item keeps the parts it is written from.                                *)
(***************************************************************************)
Item(kind, indent, templ, ret, sep, name, pre, params, text) ==
    [kind |-> kind, indent |-> indent, templ |-> templ, ret |-> ret,
     sep |-> sep, name |-> name, pre |-> pre, params |-> params, text |-> text]

Decl(indent, templ, ret, sep, name, pre, params) ==
    Item("decl", indent, templ, ret, sep, name, pre, params, "")

Comment(kind, indent, text) == Item(kind, indent, "", "", "", "", "", "", text)

Render(it) ==
    IF it.kind = "decl"
    THEN it.indent \o it.templ \o it.ret \o it.sep \o it.name \o it.pre
         \o "(" \o it.params \o ");"
    ELSE it.indent \o it.text

RECURSIVE RenderFrom(_, _)
RenderFrom(items, i) ==
    IF i > Len(items) THEN ""
    ELSE IF i = Len(items) THEN Render(items[i])
    ELSE Render(items[i]) \o "\n" \o RenderFrom(items, i + 1)

HeaderText(items) == RenderFrom(items, 1)

DeclTempls == {"", "template <typename T> ", "template<class T>  ",
               "template <class T = std::less> "}
DeclRets == {"int", "T", "const std::vector<int>&", "vector<T>", "vector<T> *",
             "vector<vector<T>>", "int *", "map<int, int>"}
DeclSeps == {" ", "  ", ""}
DeclNames == {"my_function", "LOW_LEVEL_ALLOC_free"}
DeclPres == {"", " "}
DeclParams == {"", "int a, float b"}

\* a declaration is written "type name(": the name directly follows the type
\* only after a "*" or a "&"
DeclItems ==
    { d \in { Decl(i, t, r, x, n, q, a) :
                i \in {"", "    "}, t \in DeclTempls, r \in DeclRets,
                x \in DeclSeps, n \in DeclNames, q \in DeclPres,
                a \in DeclParams } :
        d.sep = "" => Ch(d.ret, Len(d.ret)) \in {"*", "&"} }

HeaderItems ==
    { Decl("", "", "int", " ", "sum", "", "int a, int b"),
      Decl("        ", "", "double", " ", "sum", "", "double x"),
      Decl("", "template <typename T> ", "T", " ", "func_template", "", "T a"),
      Comment("line", "        ", "// calls sum (a, b)"),
      Comment("block", "", "/* see sum (x) */"),
      Comment("blockml", "", "/* Returns the\n   value of foo (bar) */"),
      Comment("blank", "", "") }

RECURSIVE SeqsUpTo(_, _)
SeqsUpTo(S, n) ==
    IF n = 0 THEN {<<>>}
    ELSE LET shorter == SeqsUpTo(S, n - 1)
         IN  shorter \cup { Append(q, x) : q \in shorter, x \in S }

Headers ==
    { <<d>> : d \in DeclItems } \cup SeqsUpTo(HeaderItems, MaxItems)

ExtractInit ==
    /\ hdr \in Headers
    /\ recs = <<>>
    /\ elines = <<>>
    /\ epanic = FALSE
    /\ xpc = "input"
    /\ PipelineIdle /\ CollectIdle /\ VersionIdle

\* extract_function_details(source)
Extract ==
    /\ xpc = "input"
    /\ recs' = extract_function_details(HeaderText(hdr))
    /\ xpc' = "extracted"
    /\ UNCHANGED <<hdr, elines, epanic, pipelineVars, collectVars, versionVars>>

\* generate_bind_wrappers on a directory that holds the header as "a.h"
Emit ==
    /\ xpc = "input"
    /\ LET w == header_wrappers("a.h", HeaderText(hdr))
       IN  elines' = w.lines /\ epanic' = w.panicked
    /\ xpc' = "emitted"
    /\ UNCHANGED <<hdr, recs, pipelineVars, collectVars, versionVars>>

ExtractNext == Extract \/ Emit

SpecExtract == ExtractInit /\ [][ExtractNext]_vars

(***************************************************************************)
(* The pipeline of src/build.rs: __build, one action per stage.  A run is  *)
(* one process; Rerun starts the script again on the file system the       *)
(* previous run left.                                                      *)
(***************************************************************************)
StageOrder == <<"VersionGate", "Clone", "Configure", "Build", "GatherLibs",
                "GatherIncludes", "Bindings">>

\* what the probes of the version gate may answer
GitAnswers ==
    { Outcome(FALSE, FALSE, ""), Outcome(TRUE, FALSE, ""),
      Outcome(TRUE, TRUE, "git version 2.39.5\n"),
      Outcome(TRUE, TRUE, "git version 2.40.0.windows.1\n") }

CMakeAnswers ==
    { Outcome(TRUE, FALSE, ""),
      Outcome(TRUE, TRUE, "cmake version 3.30.5\n"),
      Outcome(TRUE, TRUE, "cmake version 3.31.0\n") }

CapabilityAnswers ==
    { Outcome(TRUE, FALSE, ""),
      Outcome(TRUE, TRUE, "{\"generators\":[{\"name\":\"Visual Studio 15 2017\"}]}"),
      Outcome(TRUE, TRUE, "{\"generators\":[{\"name\":\"Visual Studio 17 2022\"}]}") }

\* the files the external build may leave below target/abseil-cpp/build
BuildFiles ==
    { <<"absl", "base", "Debug", "absl_base.lib">>,
      <<"absl", "base", "Debug", "absl_base.pdb">>,
      <<"bin", "absl_base.lib">>,
      <<"absl", "base", "config.h">>,
      <<"absl", "strings", "ops.h">>,
      <<"absl", "base", "call.h">>,
      <<"CMakeCache.txt">> }

BuildTrees == { t \in SUBSET BuildFiles : Cardinality(t) <= MaxFiles }

\* whether a probe ran and exited with success
Answered(o, cwd_exists) == o.spawned /\ cwd_exists /\ o.success

\* the bookkeeping of a stage: it is recorded with whether everything it
\* did succeeded; a panic ends __build, else the next stage follows
Finish(stage, ok, panicked, next) ==
    /\ trace' = Append(trace, stage)
    /\ outcomes' = Append(outcomes, ok)
    /\ pc' = IF panicked THEN "Aborted" ELSE next

PipelineInit ==
    /\ pc = "Start"
    /\ run = 1
    /\ msvc \in BOOLEAN
    /\ debug_assertions \in BOOLEAN
    /\ CONFIG_FLAGS = <<>>
    /\ COMPILE_FLAGS = <<>>
    /\ fs \in { EmptyFs(t) : t \in BOOLEAN }
    /\ fs0 = fs
    /\ invocations = <<>>
    /\ trace = <<>>
    /\ outcomes = <<>>
    /\ envOk = TRUE
    /\ copyErr = {}
    /\ prev = "none"
    /\ CollectIdle /\ VersionIdle /\ ExtractIdle

\* build_flags()
build_flags ==
    /\ pc = "Start"
    /\ CONFIG_FLAGS' = CONFIG_FLAGS \o ConfigFlagsOf(msvc, debug_assertions)
    /\ COMPILE_FLAGS' = COMPILE_FLAGS \o CompileFlagsOf(msvc, debug_assertions)
    /\ pc' = "VersionGate"
    /\ UNCHANGED <<run, msvc, debug_assertions, fs, fs0, invocations, trace,
                   outcomes, envOk, copyErr, prev>>
    /\ UNCHANGED <<collectVars, versionVars, extractVars>>

\* basics_check()
VersionGate ==
    /\ pc = "VersionGate"
    /\ \E git \in GitAnswers, cmake \in CMakeAnswers, caps \in CapabilityAnswers :
          LET r == basics_check(msvc, fs.target, git, cmake, caps)
              ok == /\ msvc
                    /\ Answered(git, fs.target)
                    /\ is_version_valid(git.stdout, MINIMUM_GIT_VERSION)
                    /\ Answered(cmake, fs.target)
                    /\ is_version_valid(cmake.stdout, MINIMUM_CMAKE_VERSION)
                    /\ Answered(caps, fs.target)
                    /\ FindGenerator(caps.stdout)
          IN  /\ invocations' = invocations \o r.invoked
              /\ Finish("VersionGate", ok, ~r.passed, "Clone")
              /\ envOk' = (envOk /\ ok)
    /\ UNCHANGED <<run, msvc, debug_assertions, CONFIG_FLAGS, COMPILE_FLAGS,
                   fs, fs0, copyErr, prev>>
    /\ UNCHANGED <<collectVars, versionVars, extractVars>>

\* create_path(&BUILD_DIR); run_command("git", &["clone", ABSEIL_SRC], &BUILD_DIR).
\* git clone succeeds when the remote can be reached and target/abseil-cpp is
\* not there yet: it refuses a destination that exists and is not empty.
Clone ==
    /\ pc = "Clone"
    /\ \E made \in BOOLEAN, reachable \in BOOLEAN :
          LET dir == create_path(fs.target, made)
              git == Outcome(TRUE, reachable /\ ~fs.source, "")
              r == run_command(InDir(git, dir.exists))
              ok == dir.ok /\ git.success
          IN  /\ invocations' =
                    IF dir.ok
                    THEN Append(invocations,
                                Invocation("git", <<"clone", ABSEIL_SRC>>, BUILD_DIR))
                    ELSE invocations
              /\ fs' = [fs EXCEPT !.target = dir.exists,
                                  !.source = @ \/ ok]
              /\ Finish("Clone", ok, ~dir.ok \/ r.panicked, "Configure")
              /\ envOk' = (envOk /\ dir.ok /\ reachable)
    /\ UNCHANGED <<run, msvc, debug_assertions, CONFIG_FLAGS, COMPILE_FLAGS,
                   fs0, copyErr, prev>>
    /\ UNCHANGED <<collectVars, versionVars, extractVars>>

\* create_path(&ABSEIL_BUILD_DIR); add_flag(&mut CONFIG_FLAGS, "..");
\* run_command("cmake", &CONFIG_FLAGS, &ABSEIL_BUILD_DIR)
Configure ==
    /\ pc = "Configure"
    /\ \E made \in BOOLEAN, success \in BOOLEAN :
          LET dir == create_path(fs.build, made)
              flags == Append(CONFIG_FLAGS, "..")
              r == run_command(InDir(Outcome(TRUE, success, ""), dir.exists))
              ok == dir.ok /\ success
          IN  /\ CONFIG_FLAGS' = IF dir.ok THEN flags ELSE CONFIG_FLAGS
              /\ invocations' =
                    IF dir.ok
                    THEN Append(invocations,
                                Invocation("cmake", flags, ABSEIL_BUILD_DIR))
                    ELSE invocations
              /\ fs' = [fs EXCEPT !.build = dir.exists]
              /\ Finish("Configure", ok, ~dir.ok \/ r.panicked, "Build")
              /\ envOk' = (envOk /\ ok)
    /\ UNCHANGED <<run, msvc, debug_assertions, COMPILE_FLAGS, fs0, copyErr,
                   prev>>
    /\ UNCHANGED <<collectVars, versionVars, extractVars>>

\* run_command("cmake", &CONFIG_FLAGS, &ABSEIL_BUILD_DIR), the build tree
\* being what the external build leaves
Build ==
    /\ pc = "Build"
    /\ \E success \in BOOLEAN, tree \in BuildTrees :
          LET r == run_command(InDir(Outcome(TRUE, success, ""), fs.build))
              ok == fs.build /\ success
          IN  /\ invocations' =
                    Append(invocations,
                           Invocation("cmake", CONFIG_FLAGS, ABSEIL_BUILD_DIR))
              /\ fs' = IF ok THEN [fs EXCEPT !.tree = tree] ELSE fs
              /\ Finish("Build", ok, r.panicked, "GatherLibs")
              /\ envOk' = (envOk /\ ok)
    /\ UNCHANGED <<run, msvc, debug_assertions, CONFIG_FLAGS, COMPILE_FLAGS,
                   fs0, copyErr, prev>>
    /\ UNCHANGED <<collectVars, versionVars, extractVars>>

\* gather_libs(): the walk starts at ABSEIL_BUILD_DIR; an error of read_dir
\* or of a copy is a panic
gather_libs ==
    /\ pc = "GatherLibs"
    /\ \E made \in BOOLEAN, ord \in DirOrders,
          bad \in SUBSET { f \in fs.tree : IsLibrary(f) } :
          LET dir == create_path(fs.libDir, made)
              walked == dir.ok /\ fs.build
              w == WalkCopies(Walk(fs.tree, ord),
                              { f \in fs.tree : IsLibrary(f) },
                              [f \in fs.tree |-> LibDest(f)], bad)
              ok == walked /\ ~w.failed
          IN  /\ fs' = [fs EXCEPT !.libDir = dir.exists,
                                  !.libs = IF walked THEN ApplyCopies(@, w.copies)
                                           ELSE @]
              /\ copyErr' = (IF walked THEN bad ELSE {})
              /\ Finish("GatherLibs", ok, ~ok, "GatherIncludes")
              /\ envOk' = (envOk /\ dir.ok /\ bad = {})
    /\ UNCHANGED <<run, msvc, debug_assertions, CONFIG_FLAGS, COMPILE_FLAGS,
                   fs0, invocations, prev>>
    /\ UNCHANGED <<collectVars, versionVars, extractVars>>

\* gather_includes(): the walk starts at ABSEIL_BUILD_DIR.join("absl"); an
\* error of read_dir, of create_dir_all or of a copy is a panic
gather_includes ==
    /\ pc = "GatherIncludes"
    /\ \E made \in BOOLEAN, ord \in DirOrders,
          bad \in SUBSET { f \in UnderAbsl(fs.tree) : IsHeader(f) } :
          LET dir == create_path(fs.inclDir, made)
              walked == dir.ok /\ UnderAbsl(fs.tree) # {}
              w == WalkCopies(Walk(UnderAbsl(fs.tree), ord),
                              { f \in UnderAbsl(fs.tree) : IsHeader(f) },
                              [f \in UnderAbsl(fs.tree) |-> IncludeDest(f)], bad)
              ok == walked /\ ~w.failed
          IN  /\ fs' = [fs EXCEPT !.inclDir = dir.exists,
                                  !.incl = IF walked THEN ApplyCopies(@, w.copies)
                                           ELSE @]
              /\ copyErr' = (IF walked THEN bad ELSE {})
              /\ Finish("GatherIncludes", ok, ~ok, "Bindings")
              /\ envOk' = (envOk /\ dir.ok /\ bad = {})
    /\ UNCHANGED <<run, msvc, debug_assertions, CONFIG_FLAGS, COMPILE_FLAGS,
                   fs0, invocations, prev>>
    /\ UNCHANGED <<collectVars, versionVars, extractVars>>

\* generate_bindings().expect(..): File::create truncates the binding file
EmitBindings ==
    /\ pc = "Bindings"
    /\ \E created \in BOOLEAN, ord \in DirOrders :
       \E g \in { generate_bindings(h) : h \in {HeaderWalk(fs.incl, ord)} } :
          LET ok == created /\ ~g.panicked
          IN  /\ fs' = [fs EXCEPT !.bindings = IF created THEN g.lines ELSE @]
              /\ Finish("Bindings", ok, ~ok, "Done")
              /\ envOk' = (envOk /\ created)
    /\ UNCHANGED <<run, msvc, debug_assertions, CONFIG_FLAGS, COMPILE_FLAGS,
                   fs0, invocations, copyErr, prev>>
    /\ UNCHANGED <<collectVars, versionVars, extractVars>>

\* main() once more, in a new process, on the file system as it was left
Rerun ==
    /\ pc \in {"Done", "Aborted"}
    /\ run < MaxRuns
    /\ run' = run + 1
    /\ pc' = "Start"
    /\ CONFIG_FLAGS' = <<>>
    /\ COMPILE_FLAGS' = <<>>
    /\ fs0' = fs
    /\ invocations' = <<>>
    /\ trace' = <<>>
    /\ outcomes' = <<>>
    /\ envOk' = TRUE
    /\ copyErr' = {}
    /\ prev' = (IF pc = "Done" THEN "Done" ELSE trace[Len(trace)])
    /\ UNCHANGED <<msvc, debug_assertions, fs>>
    /\ UNCHANGED <<collectVars, versionVars, extractVars>>

Next ==
    \/ build_flags
    \/ VersionGate
    \/ Clone
    \/ Configure
    \/ Build
    \/ gather_libs
    \/ gather_includes
    \/ EmitBindings
    \/ Rerun

Spec == PipelineInit /\ [][Next]_vars

(***************************************************************************)
(* The stand-alone collector of src/gather_libs.rs: main and its two       *)
(* operations.                                                             *)
(***************************************************************************)
Roots == { <<"home", "astd">>, <<"Debug", "astd">> }

\* the files that may lie below ./target/abseil-cpp/build/absl
LibFiles ==
    { <<"base", "Debug", "absl_base.lib">>,
      <<"base", "Debug", "absl_base.pdb">>,
      <<"Debug", "Debug", "log.lib">>,
      <<"strings", "Debug", "internal", "str.lib">>,
      <<"base", "absl_base.lib">>,
      <<"base", "Debug", "notes.txt">> }

\* the files that may lie below ./target/abseil-cpp/absl
HeaderFiles ==
    { <<"base", "config.h">>, <<"strings", "Debug", "ops.H">>,
      <<"base", "call.cc">> }

SourceTrees(files) ==
    {NoTree} \cup
    { [exists |-> TRUE, files |-> t] :
        t \in { s \in SUBSET files : Cardinality(s) <= MaxFiles } }

CollectInit ==
    /\ cpc = "libraries"
    /\ croot \in Roots
    /\ clibs \in SourceTrees(LibFiles)
    /\ chdrs \in SourceTrees(HeaderFiles)
    /\ cext \in BOOLEAN
    /\ cdest = {}
    /\ ccopied = {}
    /\ PipelineIdle /\ VersionIdle /\ ExtractIdle

CopyRecords(copies, remove_debug) ==
    { [from |-> copies[i].from, dest |-> copies[i].dest, strip |-> remove_debug] :
        i \in 1..Len(copies) }

\* main, first operation: the two canonicalize calls, then the .lib and
\* .pdb files of Debug folders; every error is returned from main
CopyLibraries ==
    /\ cpc = "libraries"
    /\ \E ord \in DirOrders, bad \in SUBSET clibs.files :
          IF ~clibs.exists \/ ~cext
          THEN cpc' = "failed" /\ UNCHANGED <<cdest, ccopied>>
          ELSE LET base == croot \o <<"target", "abseil-cpp", "build", "absl">>
                   r == copy_files_with_filter(
                            clibs.files, ord,
                            { f \in clibs.files : IsDebugLibrary(base \o f) },
                            TRUE, bad)
               IN  /\ cdest' = ApplyCopies(cdest, r.copies)
                   /\ ccopied' = ccopied \cup CopyRecords(r.copies, TRUE)
                   /\ cpc' = IF r.failed THEN "failed" ELSE "headers"
    /\ UNCHANGED <<croot, clibs, chdrs, cext>>
    /\ UNCHANGED <<pipelineVars, versionVars, extractVars>>

\* main, second operation: canonicalize, then the header files
CopyHeaders ==
    /\ cpc = "headers"
    /\ \E ord \in DirOrders, bad \in SUBSET chdrs.files :
          IF ~chdrs.exists
          THEN cpc' = "failed" /\ UNCHANGED <<cdest, ccopied>>
          ELSE LET base == croot \o <<"target", "abseil-cpp", "absl">>
                   r == copy_files_with_filter(
                            chdrs.files, ord,
                            { f \in chdrs.files : IsHeaderAnyCase(base \o f) },
                            FALSE, bad)
               IN  /\ cdest' = ApplyCopies(cdest, r.copies)
                   /\ ccopied' = ccopied \cup CopyRecords(r.copies, FALSE)
                   /\ cpc' = IF r.failed THEN "failed" ELSE "done"
    /\ UNCHANGED <<croot, clibs, chdrs, cext>>
    /\ UNCHANGED <<pipelineVars, versionVars, extractVars>>

CollectNext == CopyLibraries \/ CopyHeaders

SpecCollect == CollectInit /\ [][CollectNext]_vars

(***************************************************************************)
(* The contracts of the pipeline.                                          *)
(***************************************************************************)
\* C1: the stages run in the fixed order VersionGate, clone, configure,
\* build, collect libraries, collect headers, emit bindings, none repeated
\* or skipped; a stage that fails (an outcome FALSE) is the last one of its
\* run and leaves the pipeline in Aborted; Done is reached only after all
\* seven stages, every one of them successful.
C1_StageOrder ==
    /\ Len(trace) <= Len(StageOrder)
    /\ trace = SubSeq(StageOrder, 1, Len(trace))
    /\ Len(outcomes) = Len(trace)
    /\ \A i \in 1..(Len(trace) - 1) : outcomes[i]
    /\ (pc = "Aborted") <=> (trace # <<>> /\ ~outcomes[Len(trace)])
    /\ (pc = "Done") => (trace = StageOrder /\ \A i \in 1..Len(trace) : outcomes[i])
    /\ (pc \notin {"Start", "Done", "Aborted"}) => pc = StageOrder[Len(trace) + 1]
    /\ (pc = "Start") => trace = <<>>

\* a run has been cut short at the version gate and the next one has gone
\* through all seven stages
C1_Witness ==
    /\ run = 2
    /\ prev = "VersionGate"
    /\ pc = "Done"
    /\ trace = StageOrder

\* the arguments of the probes of the version gate
ProbeArgs == { <<"--version">>, <<"-E", "capabilities">> }

\* C2: when the version gate has failed (a tool missing, failing, too old,
\* or no suitable compiler generation), the run has made no invocation
\* other than the probes (no clone, configure or build) and the file system
\* is as the run found it; on an unsupported host the run aborts with no
\* external tool invoked.
C2_GateFailureStopsPipeline ==
    /\ (outcomes # <<>> /\ ~outcomes[1]) =>
          /\ fs = fs0
          /\ \A i \in 1..Len(invocations) : invocations[i].args \in ProbeArgs
    /\ (~msvc /\ trace # <<>>) => (pc = "Aborted" /\ invocations = <<>>)

\* git and CMake have passed and the compiler probe has failed the gate
C2_Witness ==
    /\ msvc
    /\ pc = "Aborted"
    /\ trace = <<"VersionGate">>
    /\ Len(invocations) = 3
    /\ fs = fs0

\* C4: when the source root of the header collection does not exist (and
\* nothing else has failed), the collection copies nothing and the
\* pipeline goes on to the next stage.
C4_MissingRootTolerated ==
    (Len(trace) = 6 /\ envOk /\ UnderAbsl(fs.tree) = {}) =>
        (pc = "Bindings" /\ fs.incl = fs0.incl)

\* C5: when the copy of a library fails during the collection, every other
\* library of the build tree is still copied and the pipeline goes on to
\* the next stage.
C5_CopyFailureIsolated ==
    (Len(trace) = 5 /\ copyErr # {}) =>
        /\ pc = "GatherIncludes"
        /\ \A f \in fs.tree :
              (IsLibrary(f) /\ f \notin copyErr) =>
                  \E e \in fs.libs : e.dest = LibDest(f)

\* C10: a run on the file system left by a run that reached Done, or that
\* aborted during collection, in which no tool, directory or copy fails,
\* ends in Done, and the output trees then hold copies of the files of its
\* own build tree only.
C10_Rerunnable ==
    (/\ run > 1
     /\ prev \in {"Done", "GatherLibs", "GatherIncludes"}
     /\ envOk
     /\ pc \in {"Done", "Aborted"})
    => /\ pc = "Done"
       /\ \A e \in fs.libs : e.from \in fs.tree
       /\ \A e \in fs.incl : e.from \in fs.tree

(***************************************************************************)
(* The contract of the stand-alone collector.                              *)
(***************************************************************************)
\* the elements of s at the positions keep, in the order of s
Remaining(s, keep) ==
    [i \in 1..Cardinality(keep) |->
        s[CHOOSE k \in keep : Cardinality({ j \in keep : j < k }) = i - 1]]

\* C7: for every file copied with segment stripping configured, the
\* destination path below the destination root has no segment "Debug", and
\* it is the source-relative path without its "Debug" segments, the other
\* segments in their order.
C7_DebugSegmentsStripped ==
    \A c \in ccopied :
        c.strip =>
            /\ \A i \in 1..Len(c.dest) : c.dest[i] # "Debug"
            /\ \E keep \in SUBSET (1..Len(c.from)) :
                  /\ \A i \in (1..Len(c.from)) \ keep : c.from[i] = "Debug"
                  /\ c.dest = Remaining(c.from, keep)

\* a library below a folder of two "Debug" segments has been copied
C7_Witness ==
    \E c \in ccopied :
        /\ c.strip
        /\ Len(c.from) = 4
        /\ c.dest = <<"strings", "internal", "str.lib">>
        /\ c \in { [from |-> e.from, dest |-> e.dest, strip |-> TRUE] : e \in cdest }

(***************************************************************************)
(* C8, C9.  What the records are expected to be, from the parts a          *)
(* declaration is written from.                                            *)
(***************************************************************************)
IsDecl(it) == it.kind = "decl"

ExpectedRecord(it) ==
    [prefix |-> Trim(it.templ), ret |-> Trim(it.ret \o it.sep), name |-> it.name]

ExpectedRecords(items) ==
    LET decls == SelectSeq(items, IsDecl)
    IN  [i \in 1..Len(decls) |-> ExpectedRecord(decls[i])]

\* the declarations the pattern is able to take apart: the return type is
\* written in the characters of the pattern's class and ends before white
\* space; a template preamble has none of ; : { and no ">" of the return
\* type that it could close on instead (one the preamble's scan reaches, no
\* ":" before it, with two or more characters between it and the name)
ConformingDecl(it) ==
    LET rs == it.ret \o it.sep
    IN  /\ it.sep # ""
        /\ \A i \in 1..Len(it.ret) : Ch(it.ret, i) \in RetCh
        /\ it.templ # "" =>
              /\ \A i \in 1..Len(it.templ) : Ch(it.templ, i) \notin TemplStop
              /\ \A k \in 1..Len(rs) :
                    (Ch(rs, k) = ">" /\ \A j \in 1..(k - 1) : Ch(rs, j) # ":")
                        => Len(rs) - k <= 1

OneLine(it) == it.kind \in {"line", "block", "blank"}

\* C8 (as amended): for a single declaration line that the pattern is able
\* to take apart, extraction yields one record: the name is the identifier
\* before the parenthesis, the return type is the trimmed text between the
\* template preamble and the name, the prefix is the trimmed template
\* preamble or "".  A declaration whose name directly follows "*" or "&"
\* yields no record.
C8_DeclarationRecord ==
    (xpc = "extracted" /\ Len(hdr) = 1 /\ IsDecl(hdr[1])) =>
        /\ ConformingDecl(hdr[1]) => recs = <<ExpectedRecord(hdr[1])>>
        /\ hdr[1].sep = "" => recs = <<>>

\* C8 (as claimed): every single declaration line yields that record
C8_Original ==
    (xpc = "extracted" /\ Len(hdr) = 1 /\ IsDecl(hdr[1])) =>
        recs = <<ExpectedRecord(hdr[1])>>

\* a template declaration with a qualified, parameterised reference type
\* has been taken apart
C8_Witness ==
    /\ xpc = "extracted"
    /\ Len(hdr) = 1
    /\ hdr[1].templ = "template<class T>  "
    /\ hdr[1].ret = "const std::vector<int>&"
    /\ hdr[1].sep = "  "
    /\ recs = <<[prefix |-> "template<class T>", ret |-> "const std::vector<int>&",
                 name |-> hdr[1].name]>>

\* C9 (as amended): for header text made of declarations (that the pattern
\* is able to take apart), line comments, block comments written on one
\* line and blank lines, extraction yields exactly one record per
\* declaration, in the order of the text, equal names kept apart, and no
\* record from the text of a comment.
C9_RecordsPerDeclaration ==
    (xpc = "extracted"
        /\ \A i \in 1..Len(hdr) :
              (IsDecl(hdr[i]) /\ ConformingDecl(hdr[i])) \/ OneLine(hdr[i]))
    => recs = ExpectedRecords(hdr)

\* C9 (as claimed): the same with block comments of any shape
C9_Original ==
    (xpc = "extracted"
        /\ \A i \in 1..Len(hdr) : IsDecl(hdr[i]) => ConformingDecl(hdr[i]))
    => recs = ExpectedRecords(hdr)

\* two declarations of one name with a comment between them that mentions
\* a call have been extracted
C9_Witness ==
    /\ xpc = "extracted"
    /\ Len(hdr) = 3
    /\ IsDecl(hdr[1]) /\ IsDecl(hdr[3]) /\ hdr[1].name = hdr[3].name
    /\ hdr[1] # hdr[3]
    /\ hdr[2].kind \in {"line", "block"}
    /\ Len(recs) = 2

(***************************************************************************)
(* C6.  The stubs the emitter is expected to write for a header.           *)
(***************************************************************************)
NotAllocator(sig) == ~StartsWith(sig.name, ALLOC_PREFIX)

ExpectedStubs(file_name, contents) ==
    LET sigs == SelectSeq(extract_function_details(contents), NotAllocator)
    IN  [k \in 1..(3 * Len(sigs)) |->
            CASE k % 3 = 1 -> WrapperComment(file_name)
              [] k % 3 = 2 -> WrapperStub(sigs[(k + 1) \div 3].ret,
                                          sigs[(k + 1) \div 3].name)
              [] OTHER -> ""]

\* C6: for every declaration matched in a header the emitter writes a stub
\* <name>_wrapper with the extracted return type that calls <name>(), none
\* for a name with the reserved prefix, and it does not abort.
C6_StubPerSignature ==
    xpc = "emitted" =>
        (~epanic /\ elines = ExpectedStubs("a.h", HeaderText(hdr)))

(***************************************************************************)
(* The contract of the flag sequences.                                     *)
(***************************************************************************)
IsPrefixOf(s, t) == Len(s) <= Len(t) /\ s = SubSeq(t, 1, Len(s))

\* the positions in a log of the invocations made in ABSEIL_BUILD_DIR: the
\* first is the configure invocation, the second the build invocation
InBuildDir(log) == { i \in 1..Len(log) : log[i].cwd = ABSEIL_BUILD_DIR }

\* C11: within a run both flag sequences only grow at the end; the
\* configure invocation is passed the configure flags followed by "..",
\* and the build invocation is passed the compile flags, which start with
\* "--build", ".", not the configure flags.
C11_FlagsPerInvocation ==
    [][(run' = run) =>
          /\ IsPrefixOf(CONFIG_FLAGS, CONFIG_FLAGS')
          /\ IsPrefixOf(COMPILE_FLAGS, COMPILE_FLAGS')
          /\ \A i \in InBuildDir(invocations') :
                IF \A j \in InBuildDir(invocations') : i <= j
                THEN invocations'[i].args =
                        ConfigFlagsOf(msvc, debug_assertions) \o <<"..">>
                ELSE /\ invocations'[i].args = COMPILE_FLAGS'
                     /\ IsPrefixOf(<<"--build", ".">>, invocations'[i].args)
                     /\ invocations'[i].args # CONFIG_FLAGS']_vars

=============================================================================
